---- MODULE Spec2Model ----
(***************************************************************************)
(* Articles, article versions and tags of the CMS, the tag relationship    *)
(* scorer (pointwise mutual information over the tags of latest versions)  *)
(* and the tag usage refresh.                                              *)
(*                                                                         *)
(* Tag names are the integers 1..NumNames; their numeric order stands for  *)
(* the byte order of the Go strings.  Names do not contain the separator   *)
(* "|", so the key "a|b" of a pair is modelled by the tuple <<a, b>>.       *)
(*                                                                         *)
(* float64 values are modelled exactly: a positive value is the vector of  *)
(* the exponents of its prime factorisation, a logarithm is the same       *)
(* vector read additively (sum of e[p] * ln p), and 0, +Inf, -Inf and NaN  *)
(* are values of their own.  Rounding is not modelled.                     *)
(***************************************************************************)
EXTENDS Integers, Sequences, FiniteSets, TLC

\* ------------------------------------------------------------------ bounds
NumNames    == 3   \* distinct tag names
MaxTags     == 3   \* longest tag list of a request
MaxCorpus   == 2   \* articles of the corpus the scorer runs against
MaxArticles == 3   \* articles ever created
MaxVersions == 3   \* article versions ever created
NumReqNames == 2   \* distinct tag names in the requests of the service calls
MaxReqTags  == 2   \* longest tag list of a service call
NumProcs    == 2   \* requests running concurrently
MaxTime     == 2   \* days the clock advances

\* ------------------------------------------------------------- arithmetic
Max(a, b) == IF a > b THEN a ELSE b
Min(a, b) == IF a < b THEN a ELSE b
Abs(x) == IF x < 0 THEN -x ELSE x

TagNames == 1..Max(NumNames, NumReqNames)

RECURSIVE GCD(_, _)
GCD(a, b) == IF b = 0 THEN a ELSE GCD(b, a % b)

MaxFactor == Max(MaxCorpus, MaxArticles)
Primes == {p \in 2..MaxFactor : \A d \in 2..(p - 1) : p % d # 0}

RECURSIVE Exponent(_, _)
Exponent(n, p) == IF n % p = 0 THEN 1 + Exponent(n \div p, p) ELSE 0

ZeroVec == [p \in Primes |-> 0]

RECURSIVE GCDOfSet(_)
GCDOfSet(S) == IF S = {} THEN 0
               ELSE LET x == CHOOSE y \in S : TRUE IN GCD(x, GCDOfSet(S \ {x}))

\* float64 probabilities and counts
FZero == [k |-> "zero", e |-> ZeroVec]
FInf  == [k |-> "inf",  e |-> ZeroVec]
FNaN  == [k |-> "nan",  e |-> ZeroVec]

\* float64(n) of a count n >= 0
Float(n) == IF n = 0 THEN FZero
            ELSE [k |-> "pos", e |-> [p \in Primes |-> Exponent(n, p)]]

\* x / y
FDiv(x, y) ==
    CASE x.k = "nan" \/ y.k = "nan" -> FNaN
      [] x.k = "pos"  /\ y.k = "pos"  -> [k |-> "pos", e |-> [p \in Primes |-> x.e[p] - y.e[p]]]
      [] x.k = "pos"  /\ y.k = "zero" -> FInf
      [] x.k = "pos"  /\ y.k = "inf"  -> FZero
      [] x.k = "zero" /\ y.k = "zero" -> FNaN
      [] x.k = "zero" /\ y.k # "zero" -> FZero
      [] x.k = "inf"  /\ y.k = "inf"  -> FNaN
      [] x.k = "inf"  /\ y.k # "inf"  -> FInf

\* x * y
FMul(x, y) ==
    CASE x.k = "nan" \/ y.k = "nan" -> FNaN
      [] x.k = "pos"  /\ y.k = "pos"  -> [k |-> "pos", e |-> [p \in Primes |-> x.e[p] + y.e[p]]]
      [] x.k = "zero" /\ y.k = "inf"  -> FNaN
      [] x.k = "inf"  /\ y.k = "zero" -> FNaN
      [] x.k = "zero" \/ y.k = "zero" -> FZero
      [] OTHER -> FInf

\* float64 scores: (sum over p of e[p] * ln p) / c, or -Inf, +Inf, NaN
Zero    == [k |-> "fin",  e |-> ZeroVec, c |-> 1]
NaN     == [k |-> "nan",  e |-> ZeroVec, c |-> 1]
PosInf  == [k |-> "pinf", e |-> ZeroVec, c |-> 1]
NegInf  == [k |-> "ninf", e |-> ZeroVec, c |-> 1]

\* math.Log(x)
Log(x) ==
    CASE x.k = "pos"  -> [k |-> "fin", e |-> x.e, c |-> 1]
      [] x.k = "zero" -> NegInf
      [] x.k = "inf"  -> PosInf
      [] x.k = "nan"  -> NaN

\* a + b for two sums of logarithms (c = 1)
LAdd(a, b) ==
    CASE a.k = "nan" \/ b.k = "nan" -> NaN
      [] a.k = "pinf" /\ b.k = "ninf" -> NaN
      [] a.k = "ninf" /\ b.k = "pinf" -> NaN
      [] a.k = "pinf" \/ b.k = "pinf" -> PosInf
      [] a.k = "ninf" \/ b.k = "ninf" -> NegInf
      [] OTHER -> [k |-> "fin", e |-> [p \in Primes |-> a.e[p] + b.e[p]], c |-> 1]

\* a / float64(n): the quotient in lowest terms, so equal values are equal records
LDiv(a, n) ==
    IF a.k # "fin" THEN a
    ELSE IF n = 0 THEN NaN
    ELSE LET g == GCDOfSet({n} \cup {Abs(a.e[p]) : p \in Primes})
         IN  IF \A p \in Primes : a.e[p] = 0 THEN Zero
             ELSE [k |-> "fin", e |-> [p \in Primes |-> a.e[p] \div g], c |-> n \div g]

\* the product of p^e[p] over the primes of S with e[p] > 0
RECURSIVE PowerProduct(_, _)
PowerProduct(S, e) ==
    IF S = {} THEN 1
    ELSE LET p == CHOOSE q \in S : TRUE
         IN  (IF e[p] > 0 THEN p ^ e[p] ELSE 1) * PowerProduct(S \ {p}, e)

\* a score compared with 0.0: -1 below, 0 equal, 1 above, 2 for NaN
Sign(a) ==
    CASE a.k = "nan"  -> 2
      [] a.k = "pinf" -> 1
      [] a.k = "ninf" -> -1
      [] a.k = "fin"  ->
            LET num == PowerProduct(Primes, a.e)
                den == PowerProduct(Primes, [p \in Primes |-> -a.e[p]])
            IN  IF num > den THEN 1 ELSE IF num < den THEN -1 ELSE 0

\* float64(newCount) * math.Exp(-ageInDays/decayFactor), kept as the pair of
\* the count and the age in whole days; 0 for every age when the count is 0
Trending(newCount, ageInDays) ==
    IF newCount = 0 THEN [n |-> 0, age |-> 0] ELSE [n |-> newCount, age |-> ageInDays]

\* math.Abs(a-b) < 0.000001: for counts and ages in days as small as the
\* model's, two trending scores are that close only when they are equal
floatAlmostEqual(a, b) == a = b

\* ------------------------------------------------------------- sequences
Range(s) == {s[i] : i \in DOMAIN s}

RECURSIVE SortedSeq(_)
SortedSeq(S) == IF S = {} THEN <<>>
                ELSE LET m == CHOOSE x \in S : \A y \in S : x <= y
                     IN  <<m>> \o SortedSeq(S \ {m})

SeqsUpTo(S, n) == UNION {[1..k -> S] : k \in 0..n}

\* a Go map lookup: the zero value for a missing key
MapGet(m, key) == IF key \in DOMAIN m THEN m[key] ELSE 0

\* ----------------------------------------------------------- tag names
\* A tag name is a string, here the sequence of its characters; the model
\* refers to a name by its rank in the order of the names (ORDER BY t.name,
\* LEAST, GREATEST and Go's < agree on it for these characters).
Letter(n) == <<"a", "b", "c", "d", "e", "f">>[n]

\* names of one letter
PlainNames == [n \in TagNames |-> <<Letter(n)>>]

\* names with the character "|" in them: "a|" < "a||a" < "|a" < "||d" ...
BarNames ==
    [n \in TagNames |->
        CASE n = 1 -> <<"a", "|">>
          [] n = 2 -> <<"a", "|", "|", "a">>
          [] n = 3 -> <<"|", "a">>
          [] OTHER -> <<"|", "|", Letter(n)>>]

\* ---------------------------------------------------------------- state
VARIABLES
    articles,   \* table articles: <<[author, published_version_id, latest_version_id, deleted]>>
    versions,   \* table article_versions with the tag ids of article_version_tags
    tags,       \* table tags: <<[name, usage_count, trending_score, updated_at]>>, the id is the index
    ret,        \* outcome of the last service call
    corpus,     \* scorer runs: tag names of the latest version of each live article
    sc,         \* scorer runs: the run in progress and the results of its queries
    now,        \* the clock, in days
    rf          \* concurrent requests: the position and the locals of each one's refresh

vars == <<articles, versions, tags, ret, corpus, sc, now, rf>>

\* ------------------------------------------------- corpus statistics (SQL)
\* The FROM/WHERE skeleton shared by the statistics queries is the relation
\*   articles a JOIN article_versions av ON av.id = a.latest_version_id
\*              JOIN article_version_tags avt JOIN tags t
\*   WHERE a.deleted_at IS NULL AND av.deleted_at IS NULL AND t.deleted_at IS NULL
\* given here as a set of rows <<a.id, t.name>>.

\* the rows of the corpus the scorer runs use
CorpusRows == {r \in (DOMAIN corpus) \X TagNames : r[2] \in corpus[r[1]]}

\* the tags of the whole corpus instead of those of the article
GetTagsForArticle_AnyArticle(rows, articleID) ==
    SortedSeq({r[2] : r \in rows})

GetTagsForArticle(rows, articleID) ==
    SortedSeq({r[2] : r \in {x \in rows : x[1] = articleID}})

GetArticleCountWithTag(rows, tagName) ==
    Cardinality({r[1] : r \in {x \in rows : x[2] = tagName}})

GetArticleCountWithTags(rows, tag1, tag2) ==
    Cardinality({r[1] : r \in {x \in rows : x[2] = tag1 /\ <<x[1], tag2>> \in rows}})

\* rows "name, COUNT(DISTINCT a.id)" of the names IN (tagNames); a name no
\* article carries has no row
GetTagFrequencies(rows, tagNames) ==
    IF Len(tagNames) = 0 THEN <<>>
    ELSE [n \in {m \in Range(tagNames) : GetArticleCountWithTag(rows, m) > 0}
            |-> GetArticleCountWithTag(rows, n)]

\* rows "LEAST(t1.name, t2.name), GREATEST(t1.name, t2.name), COUNT(DISTINCT
\* a.id)" with t1.name <> t2.name, stored one after the other under the key
\* tag1 + "|" + tag2: of two rows with the same key the later one stays.
\* The query has no ORDER BY; sc.desc tells in which order its rows arrive.
GetTagPairCoOccurrences(rows, tagNames) ==
    IF Len(tagNames) < 2 THEN <<>>
    ELSE LET joined == {p \in Range(tagNames) \X Range(tagNames) :
                           /\ p[1] # p[2]
                           /\ GetArticleCountWithTags(rows, p[1], p[2]) > 0}
             groups == {<<Min(p[1], p[2]), Max(p[1], p[2])>> : p \in joined}
             key(g) == sc.names[g[1]] \o <<"|">> \o sc.names[g[2]]
             before(g, h) == g[1] < h[1] \/ (g[1] = h[1] /\ g[2] < h[2])
             last(k) == CHOOSE g \in groups :
                           /\ key(g) = k
                           /\ \A h \in groups :
                                 (key(h) = k /\ h # g)
                                     => IF sc.desc THEN before(g, h) ELSE before(h, g)
         IN  [k \in {key(g) : g \in groups} |->
                 GetArticleCountWithTags(rows, last(k)[1], last(k)[2])]

\* ------------------------------------------------------------- the scorer
\* a skipped pair counted as a pair of PMI 0
PMIStep_CountSkipped(acc, freqA, freqB, coOccur, totalArticlesF) ==
    IF freqA = 0 \/ freqB = 0 \/ coOccur = 0
    THEN [acc EXCEPT !.pairCount = @ + 1]
    ELSE LET pTag1 == FDiv(Float(freqA), totalArticlesF)
             pTag2 == FDiv(Float(freqB), totalArticlesF)
             pBoth == FDiv(Float(coOccur), totalArticlesF)
             pmi   == Log(FDiv(pBoth, FMul(pTag1, pTag2)))
         IN  [scoreSum |-> LAdd(acc.scoreSum, pmi), pairCount |-> acc.pairCount + 1]

\* the ratio of the logarithm upside down
PMIStep_Inverted(acc, freqA, freqB, coOccur, totalArticlesF) ==
    IF freqA = 0 \/ freqB = 0 \/ coOccur = 0 THEN acc
    ELSE LET pTag1 == FDiv(Float(freqA), totalArticlesF)
             pTag2 == FDiv(Float(freqB), totalArticlesF)
             pBoth == FDiv(Float(coOccur), totalArticlesF)
             pmi   == Log(FDiv(FMul(pTag1, pTag2), pBoth))
         IN  [scoreSum |-> LAdd(acc.scoreSum, pmi), pairCount |-> acc.pairCount + 1]

\* Positive-PMI: a negative PMI counted as 0.0
PMIStep_Clamped(acc, freqA, freqB, coOccur, totalArticlesF) ==
    IF freqA = 0 \/ freqB = 0 \/ coOccur = 0 THEN acc
    ELSE LET pTag1 == FDiv(Float(freqA), totalArticlesF)
             pTag2 == FDiv(Float(freqB), totalArticlesF)
             pBoth == FDiv(Float(coOccur), totalArticlesF)
             pmi   == Log(FDiv(pBoth, FMul(pTag1, pTag2)))
         IN  [scoreSum |-> LAdd(acc.scoreSum, IF Sign(pmi) = -1 THEN Zero ELSE pmi),
              pairCount |-> acc.pairCount + 1]

\* a pair that never co-occurs not skipped
PMIStep_NoCoOccurSkip(acc, freqA, freqB, coOccur, totalArticlesF) ==
    IF freqA = 0 \/ freqB = 0 THEN acc
    ELSE LET pTag1 == FDiv(Float(freqA), totalArticlesF)
             pTag2 == FDiv(Float(freqB), totalArticlesF)
             pBoth == FDiv(Float(coOccur), totalArticlesF)
             pmi   == Log(FDiv(pBoth, FMul(pTag1, pTag2)))
         IN  [scoreSum |-> LAdd(acc.scoreSum, pmi), pairCount |-> acc.pairCount + 1]

\* one pass of the inner loop body after the counts were looked up
PMIStep(acc, freqA, freqB, coOccur, totalArticlesF) ==
    IF freqA = 0 \/ freqB = 0 \/ coOccur = 0 THEN acc
    ELSE LET pTag1 == FDiv(Float(freqA), totalArticlesF)
             pTag2 == FDiv(Float(freqB), totalArticlesF)
             pBoth == FDiv(Float(coOccur), totalArticlesF)
             pmi   == Log(FDiv(pBoth, FMul(pTag1, pTag2)))
         IN  [scoreSum |-> LAdd(acc.scoreSum, pmi), pairCount |-> acc.pairCount + 1]

\* the key of the names in the order of the tag list
PairKey_Unordered(tag1, tag2) == sc.names[tag1] \o <<"|">> \o sc.names[tag2]

\* key := fmt.Sprintf("%s|%s", minString(tag1, tag2), maxString(tag1, tag2))
PairKey(tag1, tag2) ==
    sc.names[IF tag1 < tag2 THEN tag1 ELSE tag2]
        \o <<"|">> \o sc.names[IF tag1 > tag2 THEN tag1 ELSE tag2]

\* for i := 0; i < len(tags)-1; i++ { for j := i + 1; j < len(tags); j++ {...} }
RECURSIVE ScoreLoop(_, _, _, _, _, _, _)
ScoreLoop(i, j, acc, tagList, totalArticlesF, tagFreq, coOccurMap) ==
    IF i > Len(tagList) - 1 THEN acc
    ELSE IF j > Len(tagList)
         THEN ScoreLoop(i + 1, i + 2, acc, tagList, totalArticlesF, tagFreq, coOccurMap)
         ELSE ScoreLoop(i, j + 1,
                        PMIStep(acc,
                                MapGet(tagFreq, tagList[i]),
                                MapGet(tagFreq, tagList[j]),
                                MapGet(coOccurMap, PairKey(tagList[i], tagList[j])),
                                totalArticlesF),
                        tagList, totalArticlesF, tagFreq, coOccurMap)

EmptyAcc == [scoreSum |-> Zero, pairCount |-> 0]

\* the scorer goes on after a failed co-occurrence query
CalculateTagRelationshipScore_IgnoreErr(tagsR, totalR, freqR, coR) ==
    IF tagsR.err THEN Zero
    ELSE IF Len(tagsR.val) < 2 THEN Zero
    ELSE IF totalR.err THEN Zero
    ELSE IF freqR.err THEN Zero
    ELSE LET acc == ScoreLoop(1, 2, EmptyAcc, tagsR.val, Float(totalR.val),
                              freqR.val, coR.val)
         IN  IF acc.pairCount = 0 THEN Zero
             ELSE LDiv(acc.scoreSum, acc.pairCount)

\* the batched scorer on the results of its four repository calls, each a
\* record [err, val]; a later call is not made once an earlier one failed
CalculateTagRelationshipScore(tagsR, totalR, freqR, coR) ==
    IF tagsR.err THEN Zero
    ELSE IF Len(tagsR.val) < 2 THEN Zero
    ELSE IF totalR.err THEN Zero
    ELSE IF freqR.err THEN Zero
    ELSE IF coR.err THEN Zero
    ELSE LET acc == ScoreLoop(1, 2, EmptyAcc, tagsR.val, Float(totalR.val),
                              freqR.val, coR.val)
         IN  IF acc.pairCount = 0 THEN Zero
             ELSE LDiv(acc.scoreSum, acc.pairCount)

\* the per-pair scorer's loop: three count queries per pair; the pairs of
\* positions in bad are those for which one of the queries failed
RECURSIVE PerPairLoop(_, _, _, _, _, _, _)
PerPairLoop(i, j, acc, tagList, totalArticles, rows, bad) ==
    IF i > Len(tagList) - 1 THEN acc
    ELSE IF j > Len(tagList)
         THEN PerPairLoop(i + 1, i + 2, acc, tagList, totalArticles, rows, bad)
         ELSE PerPairLoop(i, j + 1,
                          IF <<i, j>> \in bad THEN acc
                          ELSE PMIStep(acc,
                                       GetArticleCountWithTag(rows, tagList[i]),
                                       GetArticleCountWithTag(rows, tagList[j]),
                                       GetArticleCountWithTags(rows, tagList[i], tagList[j]),
                                       totalArticles),
                          tagList, totalArticles, rows, bad)

\* the per-pair scorer on the tags of an article
calculateArticleTagRelationshipScoreCreateArticleVersion(tagsR, totalR, rows, bad) ==
    IF tagsR.err THEN Zero
    ELSE IF Len(tagsR.val) < 2 THEN Zero
    ELSE IF totalR.err THEN Zero
    ELSE LET acc == PerPairLoop(1, 2, EmptyAcc, tagsR.val, Float(totalR.val), rows, bad)
         IN  IF acc.pairCount = 0 THEN Zero
             ELSE LDiv(acc.scoreSum, acc.pairCount)

\* the per-pair scorer on a tag list
calculateArticleTagRelationshipScoreCreateArticle(tagList, totalR, rows, bad) ==
    IF Len(tagList) < 2 THEN Zero
    ELSE IF totalR.err THEN Zero
    ELSE LET acc == PerPairLoop(1, 2, EmptyAcc, tagList, Float(totalR.val), rows, bad)
         IN  IF acc.pairCount = 0 THEN Zero
             ELSE LDiv(acc.scoreSum, acc.pairCount)

\* ------------------------------------------------------------ scorer runs
\* One scorer run against a corpus that other requests change while it runs:
\* the repository calls are separate statements outside any transaction.
\* The article count is read first; the tag statistics are read together.

\* names: the spelling of the tag names of the run's corpus; desc: the order
\* in which the rows of the co-occurrence query arrive
Idle == [pc |-> "idle", form |-> "none", tagList |-> <<>>, err |-> 0,
         total |-> 0, pairErr |-> FALSE, result |-> Zero,
         names |-> PlainNames, desc |-> FALSE]

\* positions i < j of a tag list
IndexPairs(tagList) == {p \in (DOMAIN tagList) \X (DOMAIN tagList) : p[1] < p[2]}

\* another request commits an article whose latest version carries the names S
CorpusAdd(S) ==
    /\ sc.pc # "done"
    /\ Len(corpus) < MaxCorpus
    /\ corpus' = Append(corpus, S)
    /\ UNCHANGED <<articles, versions, tags, ret, sc, now, rf>>

\* another request deletes article i
CorpusRemove(i) ==
    /\ sc.pc # "done"
    /\ i \in DOMAIN corpus
    /\ corpus' = [k \in 1..(Len(corpus) - 1) |-> IF k < i THEN corpus[k] ELSE corpus[k + 1]]
    /\ UNCHANGED <<articles, versions, tags, ret, sc, now, rf>>

\* CalculateTagRelationshipScore(articleID) starts: GetTagsForArticle;
\* e is the repository call of this run that fails (0: none)
ScoreStart(articleID, e) ==
    /\ sc.pc = "idle"
    /\ articleID \in DOMAIN corpus
    /\ sc' = [Idle EXCEPT !.pc = "tags", !.form = "batched", !.err = e,
                          !.tagList = IF e = 1 THEN <<>>
                                      ELSE GetTagsForArticle(CorpusRows, articleID)]
    /\ UNCHANGED <<articles, versions, tags, ret, corpus, now, rf>>

\* CalculateTagRelationshipScore(articleID) starts on a corpus whose tag
\* names are spelled as given; no repository call of the run fails
ScoreStartNamed(articleID, names, desc) ==
    /\ sc.pc = "idle"
    /\ articleID \in DOMAIN corpus
    /\ sc' = [Idle EXCEPT !.pc = "tags", !.form = "batched", !.names = names, !.desc = desc,
                          !.tagList = GetTagsForArticle(CorpusRows, articleID)]
    /\ UNCHANGED <<articles, versions, tags, ret, corpus, now, rf>>

\* calculateArticleTagRelationshipScoreCreateArticle(req.Tags) starts
ScoreStartRequest(tagList, e) ==
    /\ sc.pc = "idle"
    /\ sc' = [Idle EXCEPT !.pc = "tags", !.form = "perpair", !.err = e, !.tagList = tagList]
    /\ UNCHANGED <<articles, versions, tags, ret, corpus, now, rf>>

\* GetTotalArticleCount: SELECT count(*) FROM articles WHERE deleted_at IS NULL
ScoreReadTotal ==
    /\ sc.pc = "tags"
    /\ sc' = [sc EXCEPT !.pc = "total", !.total = IF sc.err = 2 THEN 0 ELSE Len(corpus)]
    /\ UNCHANGED <<articles, versions, tags, ret, corpus, now, rf>>

\* the statistics queries and the loop
ScoreFinish(bad) ==
    /\ sc.pc = "total"
    /\ sc' = [sc EXCEPT
                !.pc = "done",
                !.pairErr = (bad # {}),
                !.result =
                    IF sc.form = "batched"
                    THEN CalculateTagRelationshipScore(
                             [err |-> sc.err = 1, val |-> sc.tagList],
                             [err |-> sc.err = 2, val |-> sc.total],
                             [err |-> sc.err = 3, val |-> GetTagFrequencies(CorpusRows, sc.tagList)],
                             [err |-> sc.err = 4, val |-> GetTagPairCoOccurrences(CorpusRows, sc.tagList)])
                    ELSE calculateArticleTagRelationshipScoreCreateArticle(
                             sc.tagList, [err |-> sc.err = 2, val |-> sc.total], CorpusRows, bad)]
    /\ UNCHANGED <<articles, versions, tags, ret, corpus, now, rf>>

ScoreReset ==
    /\ sc.pc = "done"
    /\ sc' = Idle
    /\ UNCHANGED <<articles, versions, tags, ret, corpus, now, rf>>

\* ------------------------------------------------------------ the tables
NULL == 0   \* a NULL published_version_id

Statuses == {"draft", "published", "archived_version"}

\* the rows of the statistics skeleton over the tables
LatestTagRows(arts, vers, tgs) ==
    {r \in (DOMAIN arts) \X TagNames :
        /\ ~arts[r[1]].deleted
        /\ arts[r[1]].latest_version_id \in DOMAIN vers
        /\ ~vers[arts[r[1]].latest_version_id].deleted
        /\ \E t \in vers[arts[r[1]].latest_version_id].tags : tgs[t].name = r[2]}

\* GetTotalArticleCount over the table
GetTotalArticleCount(arts) == Cardinality({a \in DOMAIN arts : ~arts[a].deleted})

\* tagRepo.GetByName: the id of the tag of that name, 0 when there is none
GetByName(tgs, name) ==
    IF \E t \in DOMAIN tgs : tgs[t].name = name
    THEN CHOOSE t \in DOMAIN tgs : tgs[t].name = name
    ELSE 0

\* processTagsForVersion: looks each name up and creates the missing tags;
\* yields the tags table and the ids of the listed tags
RECURSIVE processTagsForVersion(_, _, _)
processTagsForVersion(tgs, tagNames, ids) ==
    IF tagNames = <<>> THEN [tags |-> tgs, ids |-> ids]
    ELSE LET name == Head(tagNames)
             tag  == GetByName(tgs, name)
         IN  IF tag = 0
             THEN processTagsForVersion(Append(tgs, [name |-> name, usage_count |-> 0,
                                                     trending_score |-> Trending(0, 0),
                                                     updated_at |-> now]),
                                        Tail(tagNames), Append(ids, Len(tgs) + 1))
             ELSE processTagsForVersion(tgs, Tail(tagNames), Append(ids, tag))

\* CalculateTagRelationshipScore(articleID) over the tables; failAt is the
\* repository call that fails (0: none)
ScoreForArticle(arts, vers, tgs, articleID, failAt) ==
    LET rows == LatestTagRows(arts, vers, tgs)
        tagList == GetTagsForArticle(rows, articleID)
    IN  CalculateTagRelationshipScore(
            [err |-> failAt = 1, val |-> tagList],
            [err |-> failAt = 2, val |-> GetTotalArticleCount(arts)],
            [err |-> failAt = 3, val |-> GetTagFrequencies(rows, tagList)],
            [err |-> failAt = 4, val |-> GetTagPairCoOccurrences(rows, tagList)])

\* CountArticlesByTag: COUNT(*) of article_version_tags rows joined to
\* article_versions WHERE av.status = 'published' GROUP BY avt.tag_id
CountArticlesByTag(vers) ==
    LET count(t) == Cardinality({v \in DOMAIN vers :
                                    vers[v].status = "published" /\ t \in vers[v].tags})
        used == {t \in UNION {vers[v].tags : v \in DOMAIN vers} : count(t) > 0}
    IN  [t \in used |-> count(t)]

RefreshOutcomes == {"ok", "countErr", "getAllErr", "bulkErr"}

\* a refresh loop that marks every loaded tag dirty
tagsToUpdate_All(allTags, tagCounts) ==
    [t \in DOMAIN allTags |->
        [allTags[t] EXCEPT !.usage_count = MapGet(tagCounts, t),
                           !.trending_score = Trending(MapGet(tagCounts, t),
                                                       now - allTags[t].updated_at)]]

\* the loop of updateTagUsageCounts over the loaded tags: the tags that are
\* dirty, with the usage count and trending score assigned to them.  The
\* branch that sets UpdatedAt tests newCount > currentTag.UsageCount after
\* UsageCount was assigned newCount, so it is never taken.
tagsToUpdate(allTags, tagCounts) ==
    LET newCount(t) == MapGet(tagCounts, t)
        newTrendingScore(t) == Trending(newCount(t), now - allTags[t].updated_at)
        dirty == {t \in DOMAIN allTags :
                     \/ newCount(t) # allTags[t].usage_count
                     \/ ~floatAlmostEqual(newTrendingScore(t), allTags[t].trending_score)}
    IN  [t \in dirty |-> [allTags[t] EXCEPT !.usage_count = newCount(t),
                                            !.trending_score = newTrendingScore(t)]]

\* a bulk update that writes updated_at as the refresh loop left it
BulkUpdate_KeepUpdatedAt(tgs, rows) ==
    [t \in DOMAIN tgs |-> IF t \in DOMAIN rows THEN rows[t] ELSE tgs[t]]

\* tagRepo.BulkUpdate = db.Save(&tags): every column of the given rows is
\* written, and gorm sets the autoUpdateTime column updated_at of each saved
\* row to the current time
BulkUpdate(tgs, rows) ==
    [t \in DOMAIN tgs |-> IF t \in DOMAIN rows
                          THEN [rows[t] EXCEPT !.updated_at = now]
                          ELSE tgs[t]]

\* a call that returns without running the refresh
updateTagUsageCounts_NotRun(vers, tgs, outcome) == tgs

\* the refresh going on after a failed query
updateTagUsageCounts_IgnoreFailure(vers, tgs, outcome) ==
    LET rows == tagsToUpdate(tgs, CountArticlesByTag(vers))
    IN  IF DOMAIN rows = {} THEN tgs ELSE BulkUpdate(tgs, rows)

\* updateTagUsageCounts: nothing is written when a query fails, when the
\* bulk update fails or when no tag is dirty
updateTagUsageCounts(vers, tgs, outcome) ==
    IF outcome # "ok" THEN tgs
    ELSE LET rows == tagsToUpdate(tgs, CountArticlesByTag(vers))
         IN  IF DOMAIN rows = {} THEN tgs ELSE BulkUpdate(tgs, rows)

\* ret: the call, whether it returned without error, the scorer's repository
\* call that failed (0: none), how the tag refresh of the call ended and the
\* time of the call
\* id and userID are those of a read request
NoCall == [op |-> "none", ok |-> TRUE, failAt |-> 0, refresh |-> "none", at |-> 0,
           id |-> 0, userID |-> 0]

Failed(op) == [NoCall EXCEPT !.op = op, !.ok = FALSE, !.at = now]

Users == {1}

\* the users sending read requests (user 2 is the author of no article) and
\* their role, the default of a registered user
Readers == Users \cup {2}

Role == [u \in Readers |-> "writer"]

\* the requests that run concurrently, and a request that has not begun
Procs == 1..NumProcs

IdleRun == [pc |-> "idle", tagCounts |-> <<>>, tagsToUpdate |-> <<>>,
            articleID |-> 0, versionID |-> 0, published |-> 0, number |-> 0]

Init ==
    /\ articles = <<>>
    /\ versions = <<>>
    /\ tags = <<>>
    /\ ret = NoCall
    /\ corpus = <<>>
    /\ sc = Idle
    /\ now = 0
    /\ rf = [p \in Procs |-> IdleRun]

\* ----------------------------------------------------------- service calls
CreateArticle(reqTags, userID, failAt) ==
    /\ Len(articles) < MaxArticles
    /\ Len(versions) < MaxVersions
    /\ LET pt        == processTagsForVersion(tags, reqTags, <<>>)
           articleID == Len(articles) + 1
           versionID == Len(versions) + 1
           article   == [author |-> userID, published_version_id |-> NULL,
                         latest_version_id |-> versionID, deleted |-> FALSE]
           version   == [article_id |-> articleID, version_number |-> 1,
                         status |-> "draft", score |-> Zero, tags |-> Range(pt.ids),
                         published_at |-> FALSE, deleted |-> FALSE]
           arts1     == Append(articles, article)
           vers1     == Append(versions, version)
           score     == ScoreForArticle(arts1, vers1, pt.tags, articleID, failAt)
       IN  /\ articles' = arts1
           /\ versions' = [vers1 EXCEPT ![versionID].score = score]
           /\ tags' = pt.tags
           /\ ret' = [NoCall EXCEPT !.at = now, !.op = "CreateArticle", !.failAt = failAt]
    /\ UNCHANGED <<corpus, sc, now, rf>>

\* articleRepo.GetByID succeeds
Found(articleID) == articleID \in DOMAIN articles /\ ~articles[articleID].deleted

\* articleRepo.GetVersions: the live versions of the article
GetVersions(articleID) ==
    {v \in DOMAIN versions : versions[v].article_id = articleID /\ ~versions[v].deleted}

\* a new version taking the number of the highest existing one
nextVersionNumber_NoIncrement(vers, vs) ==
    IF vs = {} THEN 1
    ELSE CHOOSE n \in {vers[v].version_number : v \in vs} :
             \A v \in vs : vers[v].version_number <= n

\* versions[0].VersionNumber + 1 of the versions ordered by version_number
\* desc, 1 when there is none
nextVersionNumber(vers, vs) ==
    IF vs = {} THEN 1
    ELSE 1 + (CHOOSE n \in {vers[v].version_number : v \in vs} :
                 \A v \in vs : vers[v].version_number <= n)

CreateArticleVersion(articleID, reqTags, userID, failAt, outcome) ==
    /\ Len(versions) < MaxVersions
    /\ IF ~Found(articleID) \/ articles[articleID].author # userID
       THEN /\ ret' = Failed("CreateArticleVersion")
            /\ UNCHANGED <<articles, versions, tags>>
       ELSE LET vs        == GetVersions(articleID)
                pt        == processTagsForVersion(tags, reqTags, <<>>)
                versionID == Len(versions) + 1
                score     == ScoreForArticle(articles, versions, pt.tags, articleID, failAt)
                version   == [article_id |-> articleID, version_number |-> nextVersionNumber(versions, vs),
                              status |-> "draft", score |-> score, tags |-> Range(pt.ids),
                              published_at |-> FALSE, deleted |-> FALSE]
                vers1     == Append(versions, version)
            IN  /\ versions' = vers1
                /\ articles' = [articles EXCEPT ![articleID].latest_version_id = versionID]
                /\ tags' = updateTagUsageCounts(vers1, pt.tags, outcome)
                /\ ret' = [NoCall EXCEPT !.at = now, !.op = "CreateArticleVersion",
                                         !.failAt = failAt, !.refresh = outcome]
    /\ UNCHANGED <<corpus, sc, now, rf>>

\* publishing that also clears published_at of the version it displaces
archiveCurrentPublished_ClearPublishedAt(vers, pub, versionID) ==
    IF pub # NULL /\ pub # versionID
    THEN [vers EXCEPT ![pub].status = "archived_version", ![pub].published_at = FALSE]
    ELSE vers

\* publishing without archiving the version published before
archiveCurrentPublished_Skip(vers, pub, versionID) == vers

\* publishing: the version the article points to as published, when it is
\* another one, gets the status archived_version
archiveCurrentPublished(vers, pub, versionID) ==
    IF pub # NULL /\ pub # versionID
    THEN [vers EXCEPT ![pub].status = "archived_version"]
    ELSE vers

\* the write of UpdateVersionStatus to articles: UpdateFields when
\* publishing, ClearPublishedVersionID or Update(article) when the published
\* version is archived or gets another status.
\* keepRef: db.Save(article) in the draft branch leaves published_version_id
\* as it was (the preloaded PublishedVersion association is saved with it)
articleWrite(articleID, versionID, status, keepRef) ==
    LET pub == articles[articleID].published_version_id
    IN  CASE status = "published" ->
                 [articles EXCEPT ![articleID].published_version_id = versionID]
          [] status = "archived_version" /\ pub = versionID ->
                 [articles EXCEPT ![articleID].published_version_id = NULL]
          [] status \notin {"published", "archived_version"}
               /\ pub = versionID /\ ~keepRef ->
                 [articles EXCEPT ![articleID].published_version_id = NULL]
          [] OTHER -> articles

\* the writes of UpdateVersionStatus to articles and article_versions
statusWrites(articleID, versionID, status, keepRef) ==
    LET pub == articles[articleID].published_version_id
        vers1 == IF status = "published"
                 THEN archiveCurrentPublished(versions, pub, versionID)
                 ELSE versions
        arts1 == articleWrite(articleID, versionID, status, keepRef)
        publishedAt == CASE status = "published" -> TRUE
                         [] status = "archived_version" -> FALSE
                         [] OTHER -> versions[versionID].published_at
    IN  [articles |-> arts1,
         versions |-> [vers1 EXCEPT ![versionID].status = status,
                                    ![versionID].published_at = publishedAt]]

UpdateVersionStatus(articleID, versionID, status, userID, outcome, keepRef) ==
    /\ IF \/ ~Found(articleID)
          \/ articles[articleID].author # userID
          \/ versionID \notin GetVersions(articleID)
       THEN /\ ret' = Failed("UpdateVersionStatus")
            /\ UNCHANGED <<articles, versions, tags>>
       ELSE LET w == statusWrites(articleID, versionID, status, keepRef)
            IN  /\ articles' = w.articles
                /\ versions' = w.versions
                /\ tags' = updateTagUsageCounts(w.versions, tags, outcome)
                /\ ret' = [NoCall EXCEPT !.at = now, !.op = "UpdateVersionStatus", !.refresh = outcome]
    /\ UNCHANGED <<corpus, sc, now, rf>>

\* UpdateVersionStatus when one of its writes fails: failedWrite 1 is the
\* UpdateVersion that archives the displaced version, 2 the write to the
\* article, 3 the UpdateVersion of the target.  The function returns the
\* error at once; the writes before the failed one stay.
UpdateVersionStatusWriteFails(articleID, versionID, status, userID, failedWrite, keepRef) ==
    /\ Found(articleID)
    /\ articles[articleID].author = userID
    /\ versionID \in GetVersions(articleID)
    /\ LET pub == articles[articleID].published_version_id
       IN  /\ failedWrite = 1 => (status = "published" /\ pub # NULL /\ pub # versionID)
           /\ failedWrite = 2 => (status = "published" \/ pub = versionID)
           /\ versions' = IF status = "published" /\ failedWrite > 1
                          THEN archiveCurrentPublished(versions, pub, versionID)
                          ELSE versions
           /\ articles' = IF failedWrite > 2
                          THEN articleWrite(articleID, versionID, status, keepRef)
                          ELSE articles
    /\ ret' = Failed("UpdateVersionStatus")
    /\ UNCHANGED <<tags, corpus, sc, now, rf>>

\* ------------------------------------------------------ concurrent requests
\* An UpdateVersionStatus request of its own goroutine: its writes to the
\* article and the version, then the statements of updateTagUsageCounts one
\* at a time, with no lock and no transaction around them.
RequestBegin(p, articleID, versionID, status, userID) ==
    /\ rf[p].pc = "idle"
    /\ Found(articleID)
    /\ articles[articleID].author = userID
    /\ versionID \in GetVersions(articleID)
    /\ LET w == statusWrites(articleID, versionID, status, FALSE)
       IN  /\ articles' = w.articles
           /\ versions' = w.versions
    /\ rf' = [rf EXCEPT ![p].pc = "written"]
    /\ UNCHANGED <<tags, ret, corpus, sc, now>>

\* UpdateVersionStatus(articleID, versionID, published) of its own goroutine,
\* one repository call at a time.  GetByID and GetVersion: the request keeps
\* the published_version_id it has read
PublishRead(p, articleID, versionID, userID) ==
    /\ rf[p].pc = "idle"
    /\ Found(articleID)
    /\ articles[articleID].author = userID
    /\ versionID \in GetVersions(articleID)
    /\ rf' = [rf EXCEPT ![p].pc = "read", ![p].articleID = articleID,
                        ![p].versionID = versionID,
                        ![p].published = articles[articleID].published_version_id]
    /\ UNCHANGED <<articles, versions, tags, ret, corpus, sc, now>>

\* UpdateVersion(currentPublished.ID, {status: archived_version}) when the
\* article read had another published version
PublishArchive(p) ==
    /\ rf[p].pc = "read"
    /\ versions' = archiveCurrentPublished(versions, rf[p].published, rf[p].versionID)
    /\ rf' = [rf EXCEPT ![p].pc = "archived"]
    /\ UNCHANGED <<articles, tags, ret, corpus, sc, now>>

\* UpdateFields(articleID, {published_version_id: versionID})
PublishPoint(p) ==
    /\ rf[p].pc = "archived"
    /\ articles' = [articles EXCEPT ![rf[p].articleID].published_version_id = rf[p].versionID]
    /\ rf' = [rf EXCEPT ![p].pc = "pointed"]
    /\ UNCHANGED <<versions, tags, ret, corpus, sc, now>>

\* UpdateVersion(versionID, {status, published_at}); the refresh follows
PublishWrite(p) ==
    /\ rf[p].pc = "pointed"
    /\ versions' = [versions EXCEPT ![rf[p].versionID].status = "published",
                                    ![rf[p].versionID].published_at = TRUE]
    /\ rf' = [rf EXCEPT ![p].pc = "written"]
    /\ UNCHANGED <<articles, tags, ret, corpus, sc, now>>

\* CreateArticleVersion(articleID, no tags) of its own goroutine.  GetByID
\* and GetVersions: the request computes nextVersionNumber from the
\* versions it has read
CreateVersionRead(p, articleID, userID) ==
    /\ rf[p].pc = "idle"
    /\ Found(articleID)
    /\ articles[articleID].author = userID
    /\ rf' = [rf EXCEPT ![p].pc = "numbered", ![p].articleID = articleID,
                        ![p].number = nextVersionNumber(versions, GetVersions(articleID))]
    /\ UNCHANGED <<articles, versions, tags, ret, corpus, sc, now>>

\* the scorer, CreateVersion and UpdateFields(latest_version_id); the
\* refresh follows
CreateVersionWrite(p) ==
    /\ rf[p].pc = "numbered"
    /\ Len(versions) < MaxVersions
    /\ LET articleID == rf[p].articleID
           versionID == Len(versions) + 1
           version   == [article_id |-> articleID, version_number |-> rf[p].number,
                         status |-> "draft",
                         score |-> ScoreForArticle(articles, versions, tags, articleID, 0),
                         tags |-> {}, published_at |-> FALSE, deleted |-> FALSE]
       IN  /\ versions' = Append(versions, version)
           /\ articles' = [articles EXCEPT ![articleID].latest_version_id = versionID]
    /\ rf' = [rf EXCEPT ![p].pc = "written", ![p].versionID = Len(versions) + 1]
    /\ UNCHANGED <<tags, ret, corpus, sc, now>>

\* tagCounts, err := s.articleRepo.CountArticlesByTag()
RefreshCount(p) ==
    /\ rf[p].pc = "written"
    /\ rf' = [rf EXCEPT ![p].pc = "counted", ![p].tagCounts = CountArticlesByTag(versions)]
    /\ UNCHANGED <<articles, versions, tags, ret, corpus, sc, now>>

\* allTags, err := s.tagRepo.GetAll() and the loop over them
RefreshLoad(p) ==
    /\ rf[p].pc = "counted"
    /\ rf' = [rf EXCEPT ![p].pc = "loaded",
                        ![p].tagsToUpdate = tagsToUpdate(tags, rf[p].tagCounts)]
    /\ UNCHANGED <<articles, versions, tags, ret, corpus, sc, now>>

\* the bulk update of the dirty tags, and the request returns
RefreshSave(p) ==
    /\ rf[p].pc = "loaded"
    /\ tags' = IF DOMAIN rf[p].tagsToUpdate = {} THEN tags
               ELSE BulkUpdate(tags, rf[p].tagsToUpdate)
    /\ rf' = [rf EXCEPT ![p].pc = "done"]
    /\ ret' = [NoCall EXCEPT !.at = now, !.op = "UpdateVersionStatus", !.refresh = "ok"]
    /\ UNCHANGED <<articles, versions, corpus, sc, now>>

DeleteArticle(articleID, userID) ==
    /\ IF ~Found(articleID) \/ articles[articleID].author # userID
       THEN /\ ret' = Failed("DeleteArticle")
            /\ UNCHANGED <<articles, versions>>
       ELSE /\ versions' = [v \in DOMAIN versions |->
                               IF versions[v].article_id = articleID
                               THEN [versions[v] EXCEPT !.deleted = TRUE]
                               ELSE versions[v]]
            /\ articles' = [articles EXCEPT ![articleID].deleted = TRUE]
            /\ ret' = [NoCall EXCEPT !.at = now, !.op = "DeleteArticle"]
    /\ UNCHANGED <<tags, corpus, sc, now, rf>>

\* ------------------------------------------------------------ read requests
\* the public read that accepts an article whose published_version_id is set,
\* whatever the status of that version
GetArticle_PointerOnly(id, userID, isPublic) ==
    /\ Found(id)
    /\ isPublic => articles[id].published_version_id # NULL

\* the service's GetArticle: TRUE when it returns the article
GetArticle(id, userID, isPublic) ==
    /\ Found(id)
    /\ isPublic =>
          /\ articles[id].published_version_id # NULL
          /\ versions[articles[id].published_version_id].status = "published"

Read(op, id, userID, ok) ==
    /\ ret' = [NoCall EXCEPT !.op = op, !.ok = ok, !.at = now,
                             !.id = id, !.userID = userID]
    /\ UNCHANGED <<articles, versions, tags, corpus, sc, now, rf>>

\* GET /public/articles/:id
GetPublicArticle(id) ==
    Read("GetPublicArticle", id, 0, GetArticle(id, 0, TRUE))

\* GET /articles/:id of an authenticated user
GetArticleHandler(id, userID) ==
    Read("GetArticle", id, userID, GetArticle(id, userID, FALSE))

\* GET /articles/:id/versions
GetArticleVersions(articleID, userID) ==
    Read("GetArticleVersions", articleID, userID,
         Found(articleID) /\ articles[articleID].author = userID)

\* GET /articles/:id/versions/:version_id
GetArticleVersion(articleID, versionID, userID) ==
    Read("GetArticleVersion", articleID, userID,
         /\ Found(articleID)
         /\ articles[articleID].author = userID
         /\ versionID \in GetVersions(articleID))

RequestStatuses == Statuses \cup {"review"}

\* the tag lists of the service calls
ReqTagLists == SeqsUpTo(1..NumReqNames, MaxReqTags)

\* the service calls over the given request tag lists, requested statuses,
\* failing scorer calls and refresh outcomes
Calls(lists, statuses, fails, outcomes) ==
    \/ \E reqTags \in lists, u \in Users, failAt \in fails :
          CreateArticle(reqTags, u, failAt)
    \/ \E a \in 1..MaxArticles, reqTags \in lists, u \in Users,
          failAt \in fails, outcome \in outcomes :
          CreateArticleVersion(a, reqTags, u, failAt, outcome)
    \/ \E a \in 1..MaxArticles, v \in 1..MaxVersions, status \in statuses,
          u \in Users, outcome \in outcomes, keepRef \in BOOLEAN :
          /\ keepRef => (status \notin {"published", "archived_version"}
                            /\ a \in DOMAIN articles
                            /\ articles[a].published_version_id = v)
          /\ UpdateVersionStatus(a, v, status, u, outcome, keepRef)
    \/ \E a \in 1..MaxArticles, u \in Users : DeleteArticle(a, u)

\* every service call with every input
Next == Calls(ReqTagLists, RequestStatuses, 0..4, RefreshOutcomes)

Spec == Init /\ [][Next]_vars

\* tagging, scoring and publishing: the status requests are publish requests,
\* the scorer's repository calls may fail, the refresh runs to its end
NextPublish == Calls(ReqTagLists, {"published"}, 0..4, {"ok"})

SpecPublish == Init /\ [][NextPublish]_vars

\* the status workflow: every requested status, articles without tags
NextStatus == Calls({<<>>}, RequestStatuses, {0}, {"ok"})

SpecStatus == Init /\ [][NextStatus]_vars

\* the status workflow and the reads of the articles
NextRead ==
    \/ Calls({<<>>}, Statuses, {0}, {"ok"})
    \/ \E id \in 1..MaxArticles : GetPublicArticle(id)
    \/ \E id \in 1..MaxArticles, u \in Readers : GetArticleHandler(id, u)
    \/ \E id \in 1..MaxArticles, u \in Readers : GetArticleVersions(id, u)
    \/ \E id \in 1..MaxArticles, v \in 1..MaxVersions, u \in Readers :
          GetArticleVersion(id, v, u)

SpecRead == Init /\ [][NextRead]_vars

\* articles and versions without tags are created, then publish requests
\* run concurrently, one per goroutine
NextConcurrentPublish ==
    \/ \E u \in Users :
          /\ \A p \in Procs : rf[p].pc = "idle"
          /\ CreateArticle(<<>>, u, 0)
    \/ \E a \in 1..MaxArticles, u \in Users :
          /\ \A p \in Procs : rf[p].pc = "idle"
          /\ CreateArticleVersion(a, <<>>, u, 0, "ok")
    \/ \E p \in Procs, a \in 1..MaxArticles, v \in 1..MaxVersions, u \in Users :
          PublishRead(p, a, v, u)
    \/ \E p \in Procs : PublishArchive(p)
    \/ \E p \in Procs : PublishPoint(p)
    \/ \E p \in Procs : PublishWrite(p)
    \/ \E p \in Procs : RefreshCount(p)
    \/ \E p \in Procs : RefreshLoad(p)
    \/ \E p \in Procs : RefreshSave(p)

SpecConcurrentPublish == Init /\ [][NextConcurrentPublish]_vars

\* articles without tags are created, then requests for a new version run
\* concurrently, one per goroutine
NextConcurrentCreate ==
    \/ \E u \in Users :
          /\ \A p \in Procs : rf[p].pc = "idle"
          /\ CreateArticle(<<>>, u, 0)
    \/ \E p \in Procs, a \in 1..MaxArticles, u \in Users : CreateVersionRead(p, a, u)
    \/ \E p \in Procs : CreateVersionWrite(p)
    \/ \E p \in Procs : RefreshCount(p)
    \/ \E p \in Procs : RefreshLoad(p)
    \/ \E p \in Procs : RefreshSave(p)

SpecConcurrentCreate == Init /\ [][NextConcurrentCreate]_vars

\* the status workflow with status requests in which a write fails
NextWriteFailure ==
    \/ Calls({<<>>}, Statuses, {0}, {"ok"})
    \/ \E a \in 1..MaxArticles, v \in 1..MaxVersions, status \in Statuses,
          u \in Users, failedWrite \in 1..3, keepRef \in BOOLEAN :
          /\ keepRef => (status \notin {"published", "archived_version"}
                            /\ a \in DOMAIN articles
                            /\ articles[a].published_version_id = v)
          /\ UpdateVersionStatusWriteFails(a, v, status, u, failedWrite, keepRef)

SpecWriteFailure == Init /\ [][NextWriteFailure]_vars

\* the status workflow on articles with at most one tag
NextWorkflow == Calls({<<>>, <<1>>}, Statuses, {0}, {"ok"})

SpecWorkflow == Init /\ [][NextWorkflow]_vars

\* a day passes
Tick ==
    /\ now < MaxTime
    /\ now' = now + 1
    /\ UNCHANGED <<articles, versions, tags, ret, corpus, sc, rf>>

\* the tag refresh over time: publish requests on articles with at most one
\* tag, every outcome of the refresh, days passing between the calls
NextRefresh ==
    \/ Calls({<<>>, <<1>>}, {"published"}, {0}, RefreshOutcomes)
    \/ Tick

SpecRefresh == Init /\ [][NextRefresh]_vars

\* articles with one tag are created, then publish and archive requests run
\* concurrently, one per goroutine
NextConcurrent ==
    \/ \E u \in Users :
          /\ \A p \in Procs : rf[p].pc = "idle"
          /\ CreateArticle(<<1>>, u, 0)
    \/ \E p \in Procs, a \in 1..MaxArticles, v \in 1..MaxVersions,
          status \in {"published", "archived_version"}, u \in Users :
          RequestBegin(p, a, v, status, u)
    \/ \E p \in Procs : RefreshCount(p)
    \/ \E p \in Procs : RefreshLoad(p)
    \/ \E p \in Procs : RefreshSave(p)

SpecConcurrent == Init /\ [][NextConcurrent]_vars

\* articles are created and nothing else happens
NextCreate == \E reqTags \in ReqTagLists, u \in Users : CreateArticle(reqTags, u, 0)

SpecCreate == Init /\ [][NextCreate]_vars

\* scorer runs against a changing corpus
NextScore ==
    \/ \E S \in SUBSET TagNames : CorpusAdd(S)
    \/ \E i \in 1..MaxCorpus : CorpusRemove(i)
    \/ \E a \in 1..MaxCorpus, e \in 0..4 : ScoreStart(a, e)
    \/ \E tagList \in SeqsUpTo(TagNames, MaxTags), e \in {0, 2} : ScoreStartRequest(tagList, e)
    \/ ScoreReadTotal
    \/ \E bad \in (IF sc.form = "perpair" THEN SUBSET IndexPairs(sc.tagList) ELSE {{}}) :
          ScoreFinish(bad)
    \/ ScoreReset

SpecScore == Init /\ [][NextScore]_vars

\* batched scorer runs over tag names of one letter and over tag names with
\* the character "|"
NextNames ==
    \/ \E S \in SUBSET TagNames : CorpusAdd(S)
    \/ \E i \in 1..MaxCorpus : CorpusRemove(i)
    \/ \E a \in 1..MaxCorpus, names \in {PlainNames, BarNames}, desc \in BOOLEAN :
          ScoreStartNamed(a, names, desc)
    \/ ScoreReadTotal
    \/ ScoreFinish({})
    \/ ScoreReset

SpecNames == Init /\ [][NextNames]_vars

\* ================================================================= claims
\* the version a CreateArticle or CreateArticleVersion call has just stored
Created == Len(versions)

\* distinct live articles whose published version (the one the article points
\* to, with status published) carries tag t
PublishedArticlesWith(t) ==
    {a \in DOMAIN articles :
        /\ ~articles[a].deleted
        /\ articles[a].published_version_id # NULL
        /\ versions[articles[a].published_version_id].status = "published"
        /\ t \in versions[articles[a].published_version_id].tags}

\* ---------------------------------------------------------------------- C1
\* C1: for every article whose latest version carries fewer than two tags the
\* scorer returns exactly 0.0, whichever of its repository calls fails or
\* none, and CreateArticle stores 0.0 for such an article.
C1_FewerThanTwoTags ==
    /\ \A a \in DOMAIN articles :
          Cardinality(versions[articles[a].latest_version_id].tags) < 2
              => \A failAt \in 0..4 :
                    ScoreForArticle(articles, versions, tags, a, failAt) = Zero
    /\ (ret.op = "CreateArticle" /\ Cardinality(versions[Created].tags) < 2)
          => versions[Created].score = Zero

\* CreateArticle has stored the score of an article with one tag while the
\* other article carries two tags
C1_Witness ==
    /\ ret.op = "CreateArticle"
    /\ Cardinality(versions[Created].tags) = 1
    /\ GetTotalArticleCount(articles) = 2
    /\ \E a \in DOMAIN articles :
          Cardinality(versions[articles[a].latest_version_id].tags) = 2

\* ---------------------------------------------------------------------- C3
\* C3: in every reachable state every article version that carries fewer than
\* two tags has the score 0.0.
C3_FewTagsZeroScore ==
    \A v \in DOMAIN versions :
        Cardinality(versions[v].tags) < 2 => versions[v].score = Zero

\* ---------------------------------------------------------------------- C4
\* C4: immediately after a successful tag refresh the usage_count of each tag
\* is the number of distinct non-deleted articles whose published version
\* carries the tag, 0 when there is none.
C4_UsageCountAfterRefresh ==
    (ret.ok /\ ret.refresh = "ok")
        => \A t \in DOMAIN tags :
              tags[t].usage_count = Cardinality(PublishedArticlesWith(t))

C6_ScorerFailure ==
    (ret.op \in {"CreateArticle", "CreateArticleVersion"} /\ ret.failAt # 0)
        => /\ ret.ok
           /\ Created > 0
           /\ versions[Created].score = Zero

\* CreateArticle succeeded although the scorer's last query failed, for an
\* article whose score is not 0.0 when no query fails
C6_Witness ==
    /\ ret.op = "CreateArticle"
    /\ ret.failAt = 4
    /\ ret.ok
    /\ versions[Created].score = Zero
    /\ ScoreForArticle(articles, versions, tags, Len(articles), 0) # Zero

\* ------------------------------------------------- claims on scorer runs
\* the results of the repository calls of the finished run, for the tag list t
RunTotal == [err |-> sc.err = 2, val |-> sc.total]

BatchedScore(t) ==
    CalculateTagRelationshipScore(
        [err |-> sc.err = 1, val |-> t], RunTotal,
        [err |-> sc.err = 3, val |-> GetTagFrequencies(CorpusRows, t)],
        [err |-> sc.err = 4, val |-> GetTagPairCoOccurrences(CorpusRows, t)])

PerPairScore(t) ==
    calculateArticleTagRelationshipScoreCreateArticle(t, RunTotal, CorpusRows, {})

Freq(a) == Cardinality({i \in DOMAIN corpus : a \in corpus[i]})

CoOccur(a, b) == Cardinality({i \in DOMAIN corpus : a \in corpus[i] /\ b \in corpus[i]})

\* ln((coOccur/N) / ((Freq(a)/N) * (Freq(b)/N)))
PMI(a, b, N) ==
    Log(FDiv(FDiv(Float(CoOccur(a, b)), Float(N)),
             FMul(FDiv(Float(Freq(a)), Float(N)), FDiv(Float(Freq(b)), Float(N)))))

\* the unordered pairs of distinct names of t with no zero factor
ValidPairs(t) ==
    {p \in Range(t) \X Range(t) :
        p[1] < p[2] /\ Freq(p[1]) # 0 /\ Freq(p[2]) # 0 /\ CoOccur(p[1], p[2]) # 0}

RECURSIVE SumPMI(_, _)
SumPMI(P, N) ==
    IF P = {} THEN Zero
    ELSE LET p == CHOOSE q \in P : TRUE
         IN  LAdd(PMI(p[1], p[2], N), SumPMI(P \ {p}, N))

MeanPMI(t, N) ==
    IF ValidPairs(t) = {} THEN Zero
    ELSE LDiv(SumPMI(ValidPairs(t), N), Cardinality(ValidPairs(t)))

\* the reorderings of a tag list
Permuted(t) ==
    {[i \in DOMAIN t |-> t[f[i]]] :
        f \in {g \in [DOMAIN t -> DOMAIN t] : \A i, j \in DOMAIN t : i # j => g[i] # g[j]}}

\* a tag list without the later occurrences of its names
RECURSIVE Dedup(_)
Dedup(t) ==
    IF t = <<>> THEN <<>>
    ELSE LET front == Dedup(SubSeq(t, 1, Len(t) - 1))
             last  == t[Len(t)]
         IN  IF last \in Range(front) THEN front ELSE Append(front, last)

C7_ZeroTotal ==
    (sc.pc = "done" /\ sc.form = "batched" /\ sc.total = 0) => sc.result = Zero

\* ---------------------------------------------------------------------- C8
\* C8: when every pairwise co-occurrence count of the tag list is zero the
\* scorer returns 0.0.
C8_NoCoOccurrence ==
    (/\ sc.pc = "done"
     /\ \A p \in IndexPairs(sc.tagList) :
           CoOccur(sc.tagList[p[1]], sc.tagList[p[2]]) = 0)
        => sc.result = Zero

\* a run over two names that articles carry, but none carries both
C8_Witness ==
    /\ sc.pc = "done" /\ sc.err = 0 /\ ~sc.pairErr
    /\ sc.total > 0
    /\ \A p \in IndexPairs(sc.tagList) :
          CoOccur(sc.tagList[p[1]], sc.tagList[p[2]]) = 0
    /\ \E p \in IndexPairs(sc.tagList) :
          Freq(sc.tagList[p[1]]) > 0 /\ Freq(sc.tagList[p[2]]) > 0

C10_Duplicates ==
    (sc.pc = "done" /\ ~sc.pairErr)
        => /\ sc.form = "batched" => sc.result = BatchedScore(Dedup(sc.tagList))
           /\ sc.form = "perpair" => sc.result = PerPairScore(Dedup(sc.tagList))

\* --------------------------------------------------------------------- C11
\* the PMI the scorer adds for one pair with the given counts
PairPMI(freqA, freqB, co, N) ==
    PMIStep(EmptyAcc, freqA, freqB, co, Float(N)).scoreSum

RowsAtCreation(a) ==
    LatestTagRows(SubSeq(articles, 1, a), SubSeq(versions, 1, a), tags)

\* C12 as stated: after any sequence of CreateArticle calls every article
\* whose latest version has at least two tags has a stored score >= 0.
C12_ScoreNonNegative ==
    \A a \in DOMAIN articles :
        Cardinality(versions[articles[a].latest_version_id].tags) >= 2
            => Sign(versions[articles[a].latest_version_id].score) \in {0, 1}

\* C12 amended: such an article's stored score is a number, and it is below 0
\* only when some pair of its tags had coOccur*N < freq(a)*freq(b) in the
\* corpus at its creation.
C12_NegativeOnlyBelowIndependence ==
    \A a \in DOMAIN articles :
        LET score   == versions[articles[a].latest_version_id].score
            rows    == RowsAtCreation(a)
            tagList == GetTagsForArticle(rows, a)
        IN  Cardinality(versions[articles[a].latest_version_id].tags) >= 2
                => /\ Sign(score) \in {-1, 0, 1}
                   /\ Sign(score) = -1
                         => \E p \in IndexPairs(tagList) :
                               GetArticleCountWithTags(rows, tagList[p[1]], tagList[p[2]]) * a
                                 < GetArticleCountWithTag(rows, tagList[p[1]])
                                     * GetArticleCountWithTag(rows, tagList[p[2]])

\* the third article carries two tags, each of the others one of them, and
\* its stored score is negative
C12_Witness ==
    /\ ret.op = "CreateArticle"
    /\ Len(articles) = 3
    /\ Cardinality(versions[articles[3].latest_version_id].tags) = 2
    /\ Sign(versions[articles[3].latest_version_id].score) = -1

\* ------------------------------------------------- claims on the tag refresh
\* a < b for two trending scores of the same usage count
TrendingLess(a, b) ==
    \/ a.n = 0 /\ b.n > 0
    \/ a.n = b.n /\ a.n > 0 /\ a.age > b.age

\* --------------------------------------------------------------------- C13
\* C13: a refresh run that follows a refresh run at the same time, with the
\* published tag counts as the first run found them, writes no tag.
C13_RefreshIdempotent ==
    [][(/\ ret.refresh = "ok"
        /\ ret'.refresh = "ok"
        /\ now' = now
        /\ ret'.at = ret.at
        /\ CountArticlesByTag(versions') = CountArticlesByTag(versions))
          => \A t \in DOMAIN tags : tags'[t] = tags[t]]_vars

\* --------------------------------------------------------------------- C14
\* C14: when a refresh run follows a refresh run at a later time and a tag's
\* usage count is positive and the same in both, the trending score of the
\* later run is strictly below that of the earlier run.
C14_TrendingDecays ==
    [][(/\ ret.refresh = "ok"
        /\ ret'.refresh = "ok"
        /\ now' = now
        /\ ret'.at > ret.at)
          => \A t \in DOMAIN tags :
                (tags[t].usage_count > 0 /\ tags'[t].usage_count = tags[t].usage_count)
                    => TrendingLess(tags'[t].trending_score, tags[t].trending_score)]_vars

\* --------------------------------------------------------------------- C15
\* C15: when the usage-count query or the load of the tags fails, the call
\* leaves every tag as it was; when one of these or the bulk update fails,
\* CreateArticleVersion and UpdateVersionStatus still return success, and
\* CreateArticleVersion has stored its version.
C15_RefreshFailure ==
    [][(now' = now /\ ret'.refresh \in {"countErr", "getAllErr", "bulkErr"})
          => /\ ret'.ok
             /\ ret'.op = "CreateArticleVersion" => Len(versions') = Len(versions) + 1
             /\ ret'.refresh \in {"countErr", "getAllErr"}
                   => \A t \in DOMAIN tags : tags'[t] = tags[t]]_vars

\* a publish request has succeeded although the load of the tags failed, and
\* the usage count of a tag is not what the usage-count query would return
C15_Witness ==
    /\ ret.op = "UpdateVersionStatus"
    /\ ret.ok
    /\ ret.refresh = "getAllErr"
    /\ \E t \in DOMAIN tags :
          tags[t].usage_count # MapGet(CountArticlesByTag(versions), t)

\* --------------------------------------------------------------------- C16
\* C16: once every concurrent request has completed, the usage_count of each
\* tag is the published usage count of the final corpus.
C16_ConcurrentRefreshConverges ==
    (/\ \A p \in Procs : rf[p].pc \in {"idle", "done"}
     /\ \E p \in Procs : rf[p].pc = "done")
        => \A t \in DOMAIN tags :
              tags[t].usage_count = MapGet(CountArticlesByTag(versions), t)

\* --------------------------------------------------------------------- C17
VersionsOf(a) == {v \in DOMAIN versions : versions[v].article_id = a}

\* C17: version numbers start at 1 and each new version takes the highest
\* one plus 1: the n versions of an article carry the numbers 1..n, no
\* number twice.
C17_VersionNumbers ==
    \A a \in DOMAIN articles :
        /\ {versions[v].version_number : v \in VersionsOf(a)}
              = 1..Cardinality(VersionsOf(a))
        /\ \A v, w \in VersionsOf(a) :
              versions[v].version_number = versions[w].version_number => v = w

C17_Witness ==
    /\ ret.op = "CreateArticleVersion" /\ ret.ok
    /\ \E a \in DOMAIN articles : Cardinality(VersionsOf(a)) = MaxVersions

\* --------------------------------------------------------------------- C18
HasPublishedVersion(a) ==
    \E v \in GetVersions(a) : versions[v].status = "published"

\* C18: the public GetArticle returns an article exactly when the article
\* has a version with the status published: it refuses before any publish,
\* returns after a publish, and refuses after that version is archived or
\* set back to draft.
C18_PublicRead ==
    ret.op = "GetPublicArticle" =>
        (ret.ok <=> (Found(ret.id) /\ HasPublishedVersion(ret.id)))

\* the public read refuses an article whose published version went back to
\* draft while the article still points to it
C18_Witness ==
    /\ ret.op = "GetPublicArticle" /\ ~ret.ok
    /\ Found(ret.id)
    /\ articles[ret.id].published_version_id # NULL
    /\ versions[articles[ret.id].published_version_id].status = "draft"

C18_WitnessReturned ==
    /\ ret.op = "GetPublicArticle" /\ ret.ok
    /\ \E v \in GetVersions(ret.id) : versions[v].status = "archived_version"

\* --------------------------------------------------------------------- C19
\* C19: the status of every version is draft, published or archived_version;
\* a status request with another value does not store it.
C19_StatusValues ==
    \A v \in DOMAIN versions : versions[v].status \in Statuses

\* --------------------------------------------------------------------- C20
\* C20: a user who is neither admin nor editor is refused by GetArticle,
\* GetArticleVersions and GetArticleVersion on an article of another author
\* that has no published version.
C20_OwnOrPublishedOnly ==
    (/\ ret.op \in {"GetArticle", "GetArticleVersions", "GetArticleVersion"}
     /\ Role[ret.userID] \notin {"admin", "editor"}
     /\ Found(ret.id)
     /\ articles[ret.id].author # ret.userID
     /\ ~HasPublishedVersion(ret.id))
        => ~ret.ok

\* the part of C20 that the code keeps: the reads of the versions
C20_VersionsRefused ==
    (/\ ret.op \in {"GetArticleVersions", "GetArticleVersion"}
     /\ Found(ret.id)
     /\ articles[ret.id].author # ret.userID)
        => ~ret.ok

\* --------------------------------------------------------------------- C21
\* C21: when a refresh finds a tag whose recomputed usage count is above the
\* stored usage_count, the tag it persists has updated_at = the current time.
C21_UpdatedAtOnIncrease ==
    [][(now' = now /\ ret'.refresh = "ok")
          => \A t \in DOMAIN tags :
                MapGet(CountArticlesByTag(versions'), t) > tags[t].usage_count
                    => /\ tags'[t].usage_count = MapGet(CountArticlesByTag(versions'), t)
                       /\ tags'[t].updated_at = now]_vars

\* a refresh after the day the tag was created has raised its usage count
C21_Witness ==
    /\ ret.refresh = "ok"
    /\ now > 0
    /\ \E t \in DOMAIN tags :
          /\ tags[t].usage_count > 0
          /\ tags[t].updated_at = now
          /\ tags[t].trending_score = Trending(tags[t].usage_count, now)

\* --------------------------------------------------------------------- C22
\* the usage count and the trending score a refresh recomputes for tag t
\* from the versions as the call leaves them
NewUsageCount(t) == MapGet(CountArticlesByTag(versions'), t)

NewTrendingScore(t) == Trending(NewUsageCount(t), now - tags[t].updated_at)

Dirty(t) ==
    \/ NewUsageCount(t) # tags[t].usage_count
    \/ NewTrendingScore(t) # tags[t].trending_score

\* C22: a refresh writes exactly the tags whose recomputed usage count or
\* trending score differs from the stored one, with the recomputed values;
\* every other tag row is left as it was, and nothing is written when no tag
\* is dirty.
C22_DirtyTagsOnly ==
    [][(now' = now /\ ret'.refresh = "ok")
          => /\ \A t \in DOMAIN tags :
                   IF Dirty(t)
                   THEN /\ tags'[t] # tags[t]
                        /\ tags'[t].usage_count = NewUsageCount(t)
                        /\ tags'[t].trending_score = NewTrendingScore(t)
                   ELSE tags'[t] = tags[t]
             /\ (\A t \in DOMAIN tags : ~Dirty(t)) /\ DOMAIN tags' = DOMAIN tags
                   => tags' = tags]_vars

\* a refresh has run on a later day than the one the tag was last written
\* on and has left the tag alone
C22_Witness ==
    /\ ret.refresh = "ok"
    /\ ret.at = now
    /\ \E t \in DOMAIN tags : tags[t].updated_at < now

\* --------------------------------------------------------------------- C23
\* the versions with status published that carry tag t
PublishedVersionsWith(vers, t) ==
    {v \in DOMAIN vers : vers[v].status = "published" /\ t \in vers[v].tags}

C24_StatusFrame ==
    [][ret'.op = "UpdateVersionStatus"
          => \/ articles' = articles /\ versions' = versions
             \/ \E a \in DOMAIN articles, target \in DOMAIN versions :
                   LET pub == articles[a].published_version_id
                   IN  /\ versions[target].article_id = a
                       /\ articles' = [articles EXCEPT ![a].published_version_id =
                                                          articles'[a].published_version_id]
                       /\ DOMAIN versions' = DOMAIN versions
                       /\ \A v \in DOMAIN versions :
                             CASE v = target ->
                                    versions'[v] = [versions[v] EXCEPT
                                                       !.status = versions'[v].status,
                                                       !.published_at = versions'[v].published_at]
                               [] v # target /\ v = pub ->
                                    versions'[v] = [versions[v] EXCEPT
                                                       !.status = versions'[v].status]
                               [] OTHER -> versions'[v] = versions[v]]_vars

\* a publish request has displaced a published version that carries a tag
C24_Witness ==
    /\ ret.op = "UpdateVersionStatus" /\ ret.ok
    /\ \E v, w \in DOMAIN versions :
          /\ versions[v].article_id = versions[w].article_id
          /\ versions[v].status = "archived_version"
          /\ versions[v].published_at
          /\ versions[v].tags # {}
          /\ versions[w].status = "published"

\* --------------------------------------------------------------------- C25
\* the per-pair form on the tag list, the total and the corpus of the
\* finished run
PerPairScoreOfArticle ==
    calculateArticleTagRelationshipScoreCreateArticleVersion(
        [err |-> FALSE, val |-> sc.tagList], RunTotal, CorpusRows, {})

\* C25: with no failing query, the batched form and the per-pair form return
\* the same score for an article on the same corpus.
C25_FormsAgree ==
    (sc.pc = "done" /\ sc.form = "batched" /\ sc.err = 0)
        => sc.result = PerPairScoreOfArticle

\* --------------------------------------------------------------------- C26
\* C26: when CreateArticleVersion returns and none of the scorer's queries
\* failed, the score stored on the version it created is the scorer's result
\* for the article as the call leaves it, its latest version being the new
\* one.
C26_ScoreOfNewVersion ==
    (ret.op = "CreateArticleVersion" /\ ret.ok /\ ret.failAt = 0)
        => versions[Created].score
              = ScoreForArticle(articles, versions, tags, versions[Created].article_id, 0)

\* --------------------------------------------------------------------- C27
\* C27: once two concurrent publish requests for two versions of one article
\* have completed, the article has at most one version with status
\* published, and its published_version_id refers to a version with status
\* published.
C27_ConcurrentPublish ==
    (/\ \A p \in Procs : rf[p].pc = "done"
     /\ \E p, q \in Procs :
           /\ rf[p].articleID = rf[q].articleID
           /\ rf[p].versionID # rf[q].versionID)
        => \A a \in {rf[p].articleID : p \in Procs} :
              /\ Cardinality({v \in GetVersions(a) : versions[v].status = "published"}) <= 1
              /\ articles[a].published_version_id # NULL
              /\ versions[articles[a].published_version_id].status = "published"

\* --------------------------------------------------------------------- C28
\* C28: when UpdateVersionStatus returns an error, the articles'
\* published_version_id and the status and published_at of every version
\* are as they were before the call.
C28_ErrorLeavesState ==
    [][(ret'.op = "UpdateVersionStatus" /\ ~ret'.ok)
          => /\ \A a \in DOMAIN articles :
                   articles'[a].published_version_id = articles[a].published_version_id
             /\ \A v \in DOMAIN versions :
                   /\ versions'[v].status = versions[v].status
                   /\ versions'[v].published_at = versions[v].published_at]_vars

\* --------------------------------------------------------------------- C30
\* C30: in every reachable state a version with status archived_version has
\* no published_at, whether it was archived by a request or displaced by the
\* publishing of another version.
C30_ArchivedNotPublishedAt ==
    \A v \in DOMAIN versions :
        versions[v].status = "archived_version" => ~versions[v].published_at

\* --------------------------------------------------------------------- C29
\* C29: under concurrent CreateArticleVersion requests no two versions of
\* one article have the same version_number.
C29_ConcurrentVersionNumbers ==
    \A v, w \in DOMAIN versions :
        (v # w /\ versions[v].article_id = versions[w].article_id)
            => versions[v].version_number # versions[w].version_number

====
